---- MODULE Spec2Model ----
(***************************************************************************)
(* Curve model parameter framework of ec/src/models/mod.rs:                *)
(* the Short-Weierstrass, Twisted-Edwards and Montgomery parameter traits, *)
(* their default coefficient operators (mul_by_a, add_b) and the default   *)
(* subgroup verifier (is_in_correct_subgroup_assuming_on_curve).           *)
(*                                                                         *)
(* Field elements are canonical residues 0..p-1 of a prime field F_p.      *)
(* Affine points are records [x, y, infinity].  The group law and the      *)
(* bit-driven scalar multiplication live outside models/mod.rs; they are   *)
(* modelled from the specification (chord-and-tangent law, MSB-first       *)
(* double-and-add started from the identity).                              *)
(***************************************************************************)
EXTENDS Integers, Sequences, FiniteSets

VARIABLES
    model,      \* the Short-Weierstrass model instance (its constants)
    te,         \* the Twisted-Edwards model instance (its constants)
    op,         \* sequential calls: the operation last called ("none" at start)
    elem,       \* sequential calls: the base-field argument of the last call
    item,       \* sequential calls: the point argument of the last call
    retElem,    \* sequential calls: the base-field value returned
    retBool,    \* sequential calls: the verdict returned
    pc,         \* concurrent calls: per thread, the line the thread is at
    tElem,      \* concurrent calls: per thread, the borrowed argument *elem
    tItem,      \* concurrent calls: per thread, the borrowed argument *item
    tCopy,      \* concurrent calls: per thread, the local `copy`
    res,        \* concurrent calls: per thread, the temporary of mul_bits
    tRet,       \* concurrent calls: per thread, the base-field value returned
    tVerdict,   \* concurrent calls: per thread, the verdict returned
    teImpl,     \* linkage: the TEModelParameters impls of the program
    mImpl       \* linkage: the MontgomeryModelParameters impls of the program

vars == <<model, te, op, elem, item, retElem, retBool,
          pc, tElem, tItem, tCopy, res, tRet, tVerdict, teImpl, mImpl>>

seqVars  == <<op, elem, item, retElem, retBool>>
concVars == <<pc, tElem, tItem, tCopy, res, tRet, tVerdict>>
linkVars == <<teImpl, mImpl>>

(***************************************************************************)
(* Bounds of the model.                                                    *)
(***************************************************************************)
\* The scalar field's big integer has 1..MaxLimbs limbs of 64 bits.
MaxLimbs == 2
\* Threads calling the operators concurrently.
NumThreads == 2
\* Type names available to declare Twisted-Edwards / Montgomery instances.
NumTypes == 2

\* Width of one limb of the big integer (u64).
LimbBits == 64

(***************************************************************************)
(* Field capability contract: arithmetic of F_p on canonical residues.     *)
(***************************************************************************)
FAdd(p, x, y) == (x + y) % p
FSub(p, x, y) == (x + p - y) % p
FMul(p, x, y) == (x * y) % p
FInv(p, x)    == CHOOSE z \in 1..(p - 1) : (z * x) % p = 1
FIsZero(x)    == x = 0

(***************************************************************************)
(* Point capability contract (affine points of y^2 = x^3 + a x + b).       *)
(***************************************************************************)
zero == [x |-> 0, y |-> 1, infinity |-> TRUE]

is_zero(P) == P.infinity

Affine(x0, y0) == [x |-> x0, y |-> y0, infinity |-> FALSE]

is_on_curve(m, P) ==
    \/ P.infinity
    \/ FMul(m.p, P.y, P.y) =
         FAdd(m.p, FAdd(m.p, FMul(m.p, FMul(m.p, P.x, P.x), P.x),
                             FMul(m.p, m.COEFF_A, P.x)), m.COEFF_B)

double(m, P) ==
    IF P.infinity \/ P.y = 0 THEN zero
    ELSE LET p   == m.p
             num == FAdd(p, FMul(p, 3 % p, FMul(p, P.x, P.x)), m.COEFF_A)
             lam == FMul(p, num, FInv(p, FMul(p, 2 % p, P.y)))
             x3  == FSub(p, FSub(p, FMul(p, lam, lam), P.x), P.x)
             y3  == FSub(p, FMul(p, lam, FSub(p, P.x, x3)), P.y)
         IN  Affine(x3, y3)

add(m, P, Q) ==
    IF P.infinity THEN Q
    ELSE IF Q.infinity THEN P
    ELSE IF P.x = Q.x
         THEN IF FAdd(m.p, P.y, Q.y) = 0 THEN zero ELSE double(m, P)
    ELSE LET p   == m.p
             lam == FMul(p, FSub(p, Q.y, P.y), FInv(p, FSub(p, Q.x, P.x)))
             x3  == FSub(p, FSub(p, FMul(p, lam, lam), P.x), Q.x)
             y3  == FSub(p, FMul(p, lam, FSub(p, P.x, x3)), P.y)
         IN  Affine(x3, y3)

\* One iteration of the loop of mul_bits: double, then add on a set bit.
mul_bits_step(m, P, acc, b) ==
    LET d == double(m, acc)
    IN  IF b THEN add(m, d, P) ELSE d

\* The loop of mul_bits over bits[lo..hi], in order, from accumulator acc.
\* The range is split in two and the first half is computed before the
\* second is entered, so that the evaluation stays shallow; the iterations
\* run in the order lo, lo + 1, ..., hi.
RECURSIVE mul_bits_from(_, _, _, _, _, _)
mul_bits_from(m, P, bits, acc, lo, hi) ==
    IF lo > hi THEN acc
    ELSE IF lo = hi THEN mul_bits_step(m, P, acc, bits[lo])
    ELSE LET mid  == (lo + hi) \div 2
             left == mul_bits_from(m, P, bits, acc, lo, mid)
         IN  IF left.infinity \in BOOLEAN
             THEN mul_bits_from(m, P, bits, left, mid + 1, hi)
             ELSE left

\* item.mul_bits(bits): MSB-first double-and-add started from the identity.
mul_bits(m, P, bits) == mul_bits_from(m, P, bits, zero, 1, Len(bits))

(***************************************************************************)
(* Big integers and their bit iterator.                                    *)
(***************************************************************************)
\* x >> k, by repeated halving.
RECURSIVE Shr(_, _)
Shr(x, k) == IF k = 0 \/ x = 0 THEN x ELSE Shr(x \div 2, k - 1)

\* BitIteratorBE::new(s): every bit of every limb of the little-endian limb
\* sequence s, most significant bit of the last limb first.
BitIteratorBE(s) ==
    [k \in 1..(LimbBits * Len(s)) |->
        LET n    == LimbBits * Len(s) - k
            part == n \div LimbBits
            bit  == n % LimbBits
        IN  Shr(s[part + 1], bit) % 2 = 1]

\* BitIteratorLE::new(s): the same bits, least significant first.
BitIteratorLE(s) ==
    [k \in 1..(LimbBits * Len(s)) |->
        LET n    == k - 1
            part == n \div LimbBits
            bit  == n % LimbBits
        IN  Shr(s[part + 1], bit) % 2 = 1]

\* ScalarField::characteristic(): the modulus r as m.limbs little-endian limbs.
characteristic(m) == [i \in 1..m.limbs |-> IF i = 1 THEN m.r ELSE 0]

(***************************************************************************)
(* Model instances.  A Short-Weierstrass instance supplies the constants   *)
(* of SWModelParameters over BaseField = F_p and ScalarField = F_r.        *)
(***************************************************************************)
SWParams(p0, a0, b0, r0, h0, hinv0, gx, gy) ==
    [p |-> p0, COEFF_A |-> a0, COEFF_B |-> b0, r |-> r0,
     COFACTOR |-> <<h0>>, COFACTOR_INV |-> hinv0,
     AFFINE_GENERATOR_COEFFS |-> <<gx, gy>>]

\* The two smallest instances, used for the concurrent calls.
SmallParameterSets ==
    { SWParams(5, 2, 1, 7, 1, 1, 0, 1),        \* prime order 7, cofactor 1
      SWParams(5, 3, 0, 5, 2, 3, 1, 2) }       \* order 10 = 2 * 5, b = 0

SWParameterSets ==
    SmallParameterSets \cup
    { SWParams(11, 1, 6, 13, 1, 1, 2, 4),      \* prime order 13, cofactor 1
      SWParams(11, 1, 0, 3, 4, 1, 5, 3),       \* order 12 = 4 * 3, b = 0
      SWParams(11, 1, 0, 3, 2, 2, 5, 3),       \* same curve, wrong cofactor
      SWParams(11, 1, 0, 3, 4, 2, 5, 3),       \* same curve, wrong inverse
      SWParams(7, 0, 3, 13, 1, 1, 1, 2),       \* prime order 13, a = 0
      SWParams(101, 1, 1, 7, 15, 1, 3, 43),    \* order 105 = 15 * 7
      SWParams(7, 0, 2, 3, 3, 0, 0, 3),        \* order 9, 3-torsion not cyclic
      SWParams(101, 1, 0, 5, 1, 1, 4, 13) }    \* order 100, declared cofactor 1

WithLimbs(ps, n) ==
    [p |-> ps.p, COEFF_A |-> ps.COEFF_A, COEFF_B |-> ps.COEFF_B, r |-> ps.r,
     COFACTOR |-> ps.COFACTOR, COFACTOR_INV |-> ps.COFACTOR_INV,
     AFFINE_GENERATOR_COEFFS |-> ps.AFFINE_GENERATOR_COEFFS, limbs |-> n]

SWModels == { WithLimbs(ps, n) : ps \in SWParameterSets, n \in 1..MaxLimbs }

TEModels ==
    { [p |-> 13, COEFF_A |-> 12, COEFF_D |-> 2],     \* a = -1
      [p |-> 11, COEFF_A |-> 1,  COEFF_D |-> 2],
      [p |-> 7,  COEFF_A |-> 0,  COEFF_D |-> 3] }    \* a = 0 (degenerate)

BaseField(m) == 0..(m.p - 1)

generator(m) ==
    Affine(m.AFFINE_GENERATOR_COEFFS[1], m.AFFINE_GENERATOR_COEFFS[2])

\* The points a caller may pass to the subgroup verifier: those on the curve.
CurvePoints(m) ==
    {zero} \cup { P \in { Affine(x0, y0) : x0 \in BaseField(m), y0 \in BaseField(m) } :
                    is_on_curve(m, P) }

(***************************************************************************)
(* SWModelParameters and TEModelParameters: the default methods.           *)
(***************************************************************************)
\* Variant: the multiplication is skipped when a = 0, as add_b skips b = 0.
SW_mul_by_a_skips_zero(m, e) ==
    IF ~FIsZero(m.COEFF_A) THEN FMul(m.p, e, m.COEFF_A) ELSE e

SW_mul_by_a(m, e) ==
    LET copy == e
    IN  FMul(m.p, copy, m.COEFF_A)

\* Variant: the test of COEFF_B is inverted.
add_b_inverted(m, e) ==
    IF FIsZero(m.COEFF_B) THEN FAdd(m.p, e, m.COEFF_B) ELSE e

add_b(m, e) ==
    IF ~FIsZero(m.COEFF_B)
    THEN LET copy == e
         IN  FAdd(m.p, copy, m.COEFF_B)
    ELSE e

\* Variant: the bits of the characteristic are fed least significant first.
is_in_correct_subgroup_le_bits(m, P) ==
    is_zero(mul_bits(m, P, BitIteratorLE(characteristic(m))))

\* Variant: the point is multiplied by COFACTOR instead of the characteristic.
is_in_correct_subgroup_by_cofactor(m, P) ==
    is_zero(mul_bits(m, P, BitIteratorBE(m.COFACTOR)))

\* Variant: the identity is rejected.
is_in_correct_subgroup_rejects_identity(m, P) ==
    ~is_zero(P) /\ is_zero(mul_bits(m, P, BitIteratorBE(characteristic(m))))

\* Variant: the product is not tested, any point of the curve is accepted.
is_in_correct_subgroup_accepts_curve(m, P) ==
    is_on_curve(m, P)

is_in_correct_subgroup_assuming_on_curve(m, P) ==
    is_zero(mul_bits(m, P, BitIteratorBE(characteristic(m))))

TE_mul_by_a(t, e) ==
    LET copy == e
    IN  FMul(t.p, copy, t.COEFF_A)

(***************************************************************************)
(* What the constants of a model instance mean (their doc comments):       *)
(* the generator is a point of the curve of order r, the characteristic of *)
(* ScalarField (a prime); COFACTOR is the ratio of the curve's order to r; *)
(* COFACTOR_INV is its inverse in ScalarField.                             *)
(***************************************************************************)
IsPrime(n) == n > 1 /\ \A d \in 2..(n - 1) : n % d # 0

\* k P by k - 1 additions of P to itself (the definition of the multiple).
RECURSIVE scalar_mul_ref(_, _, _)
scalar_mul_ref(m, k, P) ==
    IF k = 0 THEN zero ELSE add(m, scalar_mul_ref(m, k - 1, P), P)

CofactorValue(m) == m.COFACTOR[1]

CurveOrder(m) == Cardinality(CurvePoints(m))

GeneratorHasOrderR(m) ==
    /\ IsPrime(m.r)
    /\ ~generator(m).infinity
    /\ is_on_curve(m, generator(m))
    /\ scalar_mul_ref(m, m.r, generator(m)) = zero

ValidParameterSet(m) ==
    /\ (CofactorValue(m) * m.COFACTOR_INV) % m.r = 1
    /\ GeneratorHasOrderR(m)
    /\ CurveOrder(m) = CofactorValue(m) * m.r

\* The subgroup generated by the generator.
Subgroup(m) == { scalar_mul_ref(m, k, generator(m)) : k \in 0..(m.r - 1) }

(***************************************************************************)
(* Sequential calls: one whole call of a default method per step.  The     *)
(* state records the last call: its operation, argument and return value.  *)
(***************************************************************************)
Threads == 1..NumThreads
Types   == 1..NumTypes
NoImpl  == [declared |-> FALSE, BaseField |-> "none", link |-> 0]

IdleThreads ==
    /\ pc       = [t \in Threads |-> "idle"]
    /\ tElem    = [t \in Threads |-> 0]
    /\ tItem    = [t \in Threads |-> zero]
    /\ tCopy    = [t \in Threads |-> 0]
    /\ res      = [t \in Threads |-> zero]
    /\ tRet     = [t \in Threads |-> 0]
    /\ tVerdict = [t \in Threads |-> FALSE]

NoImpls ==
    /\ teImpl = [t \in Types |-> NoImpl]
    /\ mImpl  = [t \in Types |-> NoImpl]

NoCall ==
    /\ op = "none"
    /\ elem = 0
    /\ item = zero
    /\ retElem = 0
    /\ retBool = FALSE

Init ==
    /\ model \in SWModels
    /\ te \in TEModels
    /\ NoCall
    /\ IdleThreads
    /\ NoImpls

Call_SW_mul_by_a ==
    /\ op = "none"
    /\ \E e \in BaseField(model) :
          /\ op' = "SW::mul_by_a"
          /\ elem' = e
          /\ retElem' = SW_mul_by_a(model, e)
    /\ item' = zero
    /\ retBool' = FALSE
    /\ UNCHANGED <<model, te, concVars, linkVars>>

Call_add_b ==
    /\ op = "none"
    /\ \E e \in BaseField(model) :
          /\ op' = "SW::add_b"
          /\ elem' = e
          /\ retElem' = add_b(model, e)
    /\ item' = zero
    /\ retBool' = FALSE
    /\ UNCHANGED <<model, te, concVars, linkVars>>

\* The caller passes a point that is on the curve (the precondition).
Call_is_in_correct_subgroup ==
    /\ op = "none"
    /\ \E P \in CurvePoints(model) :
          /\ op' = "SW::is_in_correct_subgroup_assuming_on_curve"
          /\ item' = P
          /\ retBool' = is_in_correct_subgroup_assuming_on_curve(model, P)
    /\ elem' = 0
    /\ retElem' = 0
    /\ UNCHANGED <<model, te, concVars, linkVars>>

Call_TE_mul_by_a ==
    /\ op = "none"
    /\ \E e \in BaseField(te) :
          /\ op' = "TE::mul_by_a"
          /\ elem' = e
          /\ retElem' = TE_mul_by_a(te, e)
    /\ item' = zero
    /\ retBool' = FALSE
    /\ UNCHANGED <<model, te, concVars, linkVars>>

\* The caller drops the returned value; the next call starts afresh.
Discard ==
    /\ op # "none"
    /\ op' = "none"
    /\ elem' = 0
    /\ item' = zero
    /\ retElem' = 0
    /\ retBool' = FALSE
    /\ UNCHANGED <<model, te, concVars, linkVars>>

Next ==
    \/ Call_SW_mul_by_a
    \/ Call_add_b
    \/ Call_is_in_correct_subgroup
    \/ Call_TE_mul_by_a
    \/ Discard

Spec == Init /\ [][Next]_vars

(***************************************************************************)
(* Properties of the sequential calls.                                     *)
(***************************************************************************)
VerifierCalled == op = "SW::is_in_correct_subgroup_assuming_on_curve"

\* The subgroup of order r is determined by r: r^2 does not divide the
\* order of the curve, that is, r does not divide the ratio of the curve's
\* order to r.
SubgroupIsUnique(m) == CurveOrder(m) % (m.r * m.r) # 0

\* C1 as stated: on every model and every point of the curve the verifier
\* returns true iff r P is the point at infinity (r the characteristic of
\* ScalarField), equivalently exactly on the points of the subgroup of
\* order r generated by the generator.
C1_VerdictIsSubgroupMembership ==
    VerifierCalled =>
        /\ retBool = is_zero(scalar_mul_ref(model, model.r, item))
        /\ retBool = (item \in Subgroup(model))

\* C1 as amended: on every model and every point of the curve the verifier
\* returns true iff r P is the point at infinity; that is exactly the
\* subgroup of order r generated by the generator when the generator has
\* order r and r^2 does not divide the order of the curve.
C1_VerdictIsOrderCheck ==
    VerifierCalled =>
        /\ retBool = is_zero(scalar_mul_ref(model, model.r, item))
        /\ \/ retBool = (item \in Subgroup(model))
           \/ ~(GeneratorHasOrderR(model) /\ SubgroupIsUnique(model))

C1_Witness ==
    /\ VerifierCalled
    /\ retBool
    /\ item \notin {zero, generator(model)}
    /\ CofactorValue(model) > 1
    /\ GeneratorHasOrderR(model)
    /\ SubgroupIsUnique(model)

\* The hypothesis of C2: the generator has order r and the curve has order
\* cofactor * r with cofactor > 1.
CofactorAboveOne(m) ==
    /\ CofactorValue(m) > 1
    /\ GeneratorHasOrderR(m)
    /\ CurveOrder(m) = CofactorValue(m) * m.r

\* C2 as stated: when the curve has order cofactor * r with cofactor > 1,
\* the verifier returns false on every point of the curve outside the
\* subgroup of order r generated by the generator.
C2_RejectsOutsideSubgroupAnyCofactor ==
    ( /\ VerifierCalled
      /\ item \notin Subgroup(model)
      /\ CofactorAboveOne(model) ) => (retBool = FALSE)

\* C2 as amended: when the curve has order cofactor * r with cofactor > 1
\* and r does not divide the cofactor, the verifier returns false on every
\* point of the curve outside the subgroup of order r generated by the
\* generator.
C2_RejectsOutsideSubgroup ==
    ( /\ VerifierCalled
      /\ item \notin Subgroup(model)
      /\ CofactorValue(model) % model.r # 0
      /\ CofactorAboveOne(model) ) => (retBool = FALSE)

C2_Witness ==
    /\ VerifierCalled
    /\ retBool = FALSE
    /\ item \notin Subgroup(model)
    /\ scalar_mul_ref(model, CofactorValue(model), item) = zero
    /\ CofactorValue(model) % model.r # 0
    /\ CofactorAboveOne(model)

\* C3: when the generator is a point of the curve of order r, the verifier
\* returns true on the generator and on every multiple of it.
C3_AcceptsGeneratorMultiples ==
    ( /\ VerifierCalled
      /\ GeneratorHasOrderR(model)
      /\ item \in Subgroup(model) ) => (retBool = TRUE)

C3_Witness ==
    /\ VerifierCalled
    /\ item = generator(model)
    /\ retBool = TRUE
    /\ ValidParameterSet(model)

\* C4: the verifier returns true on the point at infinity, whatever the
\* characteristic and the cofactor.
C4_AcceptsIdentity ==
    (VerifierCalled /\ is_zero(item)) => (retBool = TRUE)

C4_Witness ==
    /\ VerifierCalled
    /\ is_zero(item)
    /\ retBool = TRUE
    /\ CofactorValue(model) > 1

\* C5: add_b(e) is e when COEFF_B is zero and e + COEFF_B otherwise; in both
\* branches it is the value of the general formula e + COEFF_B.
C5_AddB ==
    op = "SW::add_b" =>
        /\ model.COEFF_B = 0 => retElem = elem
        /\ model.COEFF_B # 0 => retElem = (elem + model.COEFF_B) % model.p
        /\ retElem = (elem + model.COEFF_B) % model.p

C5_Witness ==
    /\ op = "SW::add_b"
    /\ model.COEFF_B = 0
    /\ elem # 0
    /\ retElem = elem

\* C6: the default mul_by_a of a Short-Weierstrass model and that of a
\* Twisted-Edwards model both return e * COEFF_A, so they are the same
\* function of (e, COEFF_A).
C6_MulByA ==
    /\ op = "SW::mul_by_a" =>
          /\ retElem = (elem * model.COEFF_A) % model.p
          /\ retElem = TE_mul_by_a([p |-> model.p, COEFF_A |-> model.COEFF_A], elem)
    /\ op = "TE::mul_by_a" =>
          /\ retElem = (elem * te.COEFF_A) % te.p
          /\ retElem = SW_mul_by_a([p |-> te.p, COEFF_A |-> te.COEFF_A], elem)

C6_Witness ==
    /\ op = "SW::mul_by_a"
    /\ model.COEFF_A = 0
    /\ elem # 0
    /\ retElem = 0

\* The big-endian binary expansion of the number n on `width` bits.
BitsOfBE(n, width) == [k \in 1..width |-> Shr(n, width - k) % 2 = 1]

\* The number of bits of n once its leading zero bits are dropped.
RECURSIVE BitLength(_)
BitLength(n) == IF n = 0 THEN 0 ELSE 1 + BitLength(n \div 2)

\* C9: the verifier feeds mul_bits every bit of every limb of the
\* characteristic, most significant first; double-and-add over them gives
\* r P, and neither the leading zero bits nor the number of limbs changes
\* the product or the verdict.
C9_FullWidthBitsGiveRP ==
    VerifierCalled =>
        LET bits == BitIteratorBE(characteristic(model))
            rP   == scalar_mul_ref(model, model.r, item)
        IN  /\ Len(bits) = LimbBits * model.limbs
            /\ bits = BitsOfBE(model.r, LimbBits * model.limbs)
            /\ mul_bits(model, item, bits) = rP
            /\ mul_bits(model, item, BitsOfBE(model.r, BitLength(model.r))) = rP
            /\ retBool = is_zero(rP)
            /\ \A n \in 1..MaxLimbs :
                  is_in_correct_subgroup_assuming_on_curve(WithLimbs(model, n), item)
                      = retBool

C9_Witness ==
    /\ VerifierCalled
    /\ model.limbs > 1
    /\ ~is_zero(item)
    /\ retBool = TRUE

\* Cofactor pairs and generators a parameter set could declare instead.
OtherCofactors == {1, 2, 3, 4}

WithCofactor(m, h, hinv, g) ==
    [m EXCEPT !.COFACTOR = <<h>>, !.COFACTOR_INV = hinv,
              !.AFFINE_GENERATOR_COEFFS = g]

\* C10: the verdict depends on the point and the characteristic only: the
\* same curve with any other COFACTOR, COFACTOR_INV and generator gives the
\* same verdict on the point.
C10_VerdictIgnoresCofactor ==
    VerifierCalled =>
        \A h \in OtherCofactors, hinv \in {0, 1, model.r - 1},
           g \in {model.AFFINE_GENERATOR_COEFFS, <<0, 0>>} :
            is_in_correct_subgroup_assuming_on_curve(
                WithCofactor(model, h, hinv, g), item) = retBool

C10_Witness ==
    /\ VerifierCalled
    /\ ~is_zero(item)
    /\ retBool = FALSE
    /\ \E m2 \in SWModels :
          /\ m2.COFACTOR # model.COFACTOR
          /\ m2 = WithCofactor(model, m2.COFACTOR[1], m2.COFACTOR_INV,
                               model.AFFINE_GENERATOR_COEFFS)

(***************************************************************************)
(* Concurrent calls: each thread calls the default methods of the model on *)
(* its own arguments and runs them line by line; the locals (`copy`, the   *)
(* temporary holding the product) belong to the call.                      *)
(***************************************************************************)
SmallModels == { WithLimbs(ps, 1) : ps \in SmallParameterSets }

InitConc ==
    /\ model \in SmallModels
    /\ te \in { t \in TEModels : t.COEFF_A = 0 }   \* no Twisted-Edwards call here
    /\ NoCall
    /\ IdleThreads
    /\ NoImpls

Goto(t, label) == pc' = [pc EXCEPT ![t] = label]

Invoke_mul_by_a(t) ==
    /\ pc[t] = "idle"
    /\ \E e \in BaseField(model) : tElem' = [tElem EXCEPT ![t] = e]
    /\ Goto(t, "mul_by_a:40")
    /\ UNCHANGED <<model, te, tItem, tCopy, res, tRet, tVerdict, seqVars, linkVars>>

\* let mut copy = *elem;
mul_by_a_40(t) ==
    /\ pc[t] = "mul_by_a:40"
    /\ tCopy' = [tCopy EXCEPT ![t] = tElem[t]]
    /\ Goto(t, "mul_by_a:41")
    /\ UNCHANGED <<model, te, tElem, tItem, res, tRet, tVerdict, seqVars, linkVars>>

\* Variant: `copy` is one static shared by all calls.
mul_by_a_41_shared_copy(t) ==
    /\ pc[t] = "mul_by_a:41"
    /\ tCopy' = [u \in Threads |-> FMul(model.p, tCopy[t], model.COEFF_A)]
    /\ Goto(t, "mul_by_a:42")
    /\ UNCHANGED <<model, te, tElem, tItem, res, tRet, tVerdict, seqVars, linkVars>>

\* copy *= &Self::COEFF_A;
mul_by_a_41(t) ==
    /\ pc[t] = "mul_by_a:41"
    /\ tCopy' = [tCopy EXCEPT ![t] = FMul(model.p, tCopy[t], model.COEFF_A)]
    /\ Goto(t, "mul_by_a:42")
    /\ UNCHANGED <<model, te, tElem, tItem, res, tRet, tVerdict, seqVars, linkVars>>

\* copy
mul_by_a_42(t) ==
    /\ pc[t] = "mul_by_a:42"
    /\ tRet' = [tRet EXCEPT ![t] = tCopy[t]]
    /\ Goto(t, "done:mul_by_a")
    /\ UNCHANGED <<model, te, tElem, tItem, tCopy, res, tVerdict, seqVars, linkVars>>

Invoke_add_b(t) ==
    /\ pc[t] = "idle"
    /\ \E e \in BaseField(model) : tElem' = [tElem EXCEPT ![t] = e]
    /\ Goto(t, "add_b:48")
    /\ UNCHANGED <<model, te, tItem, tCopy, res, tRet, tVerdict, seqVars, linkVars>>

\* if !Self::COEFF_B.is_zero() {
add_b_48(t) ==
    /\ pc[t] = "add_b:48"
    /\ IF ~FIsZero(model.COEFF_B) THEN Goto(t, "add_b:49") ELSE Goto(t, "add_b:53")
    /\ UNCHANGED <<model, te, tElem, tItem, tCopy, res, tRet, tVerdict, seqVars, linkVars>>

\* let mut copy = *elem;
add_b_49(t) ==
    /\ pc[t] = "add_b:49"
    /\ tCopy' = [tCopy EXCEPT ![t] = tElem[t]]
    /\ Goto(t, "add_b:50")
    /\ UNCHANGED <<model, te, tElem, tItem, res, tRet, tVerdict, seqVars, linkVars>>

\* copy += &Self::COEFF_B;
add_b_50(t) ==
    /\ pc[t] = "add_b:50"
    /\ tCopy' = [tCopy EXCEPT ![t] = FAdd(model.p, tCopy[t], model.COEFF_B)]
    /\ Goto(t, "add_b:51")
    /\ UNCHANGED <<model, te, tElem, tItem, res, tRet, tVerdict, seqVars, linkVars>>

\* return copy;
add_b_51(t) ==
    /\ pc[t] = "add_b:51"
    /\ tRet' = [tRet EXCEPT ![t] = tCopy[t]]
    /\ Goto(t, "done:add_b")
    /\ UNCHANGED <<model, te, tElem, tItem, tCopy, res, tVerdict, seqVars, linkVars>>

\* *elem
add_b_53(t) ==
    /\ pc[t] = "add_b:53"
    /\ tRet' = [tRet EXCEPT ![t] = tElem[t]]
    /\ Goto(t, "done:add_b")
    /\ UNCHANGED <<model, te, tElem, tItem, tCopy, res, tVerdict, seqVars, linkVars>>

Invoke_is_in_correct_subgroup(t) ==
    /\ pc[t] = "idle"
    /\ \E P \in CurvePoints(model) : tItem' = [tItem EXCEPT ![t] = P]
    /\ Goto(t, "subgroup:62")
    /\ UNCHANGED <<model, te, tElem, tCopy, res, tRet, tVerdict, seqVars, linkVars>>

\* item.mul_bits(BitIteratorBE::new(Self::ScalarField::characteristic()))
subgroup_62(t) ==
    /\ pc[t] = "subgroup:62"
    /\ res' = [res EXCEPT ![t] =
                 mul_bits(model, tItem[t], BitIteratorBE(characteristic(model)))]
    /\ Goto(t, "subgroup:63")
    /\ UNCHANGED <<model, te, tElem, tItem, tCopy, tRet, tVerdict, seqVars, linkVars>>

\* .is_zero()
subgroup_63(t) ==
    /\ pc[t] = "subgroup:63"
    /\ tVerdict' = [tVerdict EXCEPT ![t] = is_zero(res[t])]
    /\ Goto(t, "done:subgroup")
    /\ UNCHANGED <<model, te, tElem, tItem, tCopy, res, tRet, seqVars, linkVars>>

Done(t) == pc[t] \in {"done:mul_by_a", "done:add_b", "done:subgroup"}

\* The caller takes the returned value; the call's locals go out of scope.
Return(t) ==
    /\ Done(t)
    /\ Goto(t, "idle")
    /\ tElem'    = [tElem EXCEPT ![t] = 0]
    /\ tItem'    = [tItem EXCEPT ![t] = zero]
    /\ tCopy'    = [tCopy EXCEPT ![t] = 0]
    /\ res'      = [res EXCEPT ![t] = zero]
    /\ tRet'     = [tRet EXCEPT ![t] = 0]
    /\ tVerdict' = [tVerdict EXCEPT ![t] = FALSE]
    /\ UNCHANGED <<model, te, seqVars, linkVars>>

NextConc ==
    \E t \in Threads :
        \/ Invoke_mul_by_a(t)
        \/ mul_by_a_40(t)
        \/ mul_by_a_41(t)
        \/ mul_by_a_42(t)
        \/ Invoke_add_b(t)
        \/ add_b_48(t)
        \/ add_b_49(t)
        \/ add_b_50(t)
        \/ add_b_51(t)
        \/ add_b_53(t)
        \/ Invoke_is_in_correct_subgroup(t)
        \/ subgroup_62(t)
        \/ subgroup_63(t)
        \/ Return(t)

SpecConc == InitConc /\ [][NextConc]_vars

\* What a call that has returned gave, against the method run alone.
ReturnedAsAlone(t) ==
    /\ pc[t] = "done:mul_by_a" => tRet[t] = SW_mul_by_a(model, tElem[t])
    /\ pc[t] = "done:add_b" => tRet[t] = add_b(model, tElem[t])
    /\ pc[t] = "done:subgroup" =>
          tVerdict[t] = is_in_correct_subgroup_assuming_on_curve(model, tItem[t])

EqualInputsEqualResults(t, u) ==
    ( /\ pc[t] = pc[u]
      /\ Done(t)
      /\ tElem[t] = tElem[u]
      /\ tItem[t] = tItem[u] ) => (tRet[t] = tRet[u] /\ tVerdict[t] = tVerdict[u])

\* A step leaves the constants of the model and the arguments of the calls
\* in progress as they were.
StepKeepsInputs ==
    /\ model' = model
    /\ \A t \in Threads :
          (pc[t] # "idle" /\ pc'[t] # "idle") =>
              (tElem'[t] = tElem[t] /\ tItem'[t] = tItem[t])

\* C8: the default methods are stateless: every step leaves the model's
\* constants and the arguments of the calls unchanged, every call returns,
\* under any interleaving, what it returns run alone, and calls on equal
\* arguments return equal values.
C8_StatelessCalls ==
    /\ [](\A t \in Threads : ReturnedAsAlone(t))
    /\ [](\A t, u \in Threads : EqualInputsEqualResults(t, u))
    /\ [][StepKeepsInputs]_vars

C8_Witness ==
    \E t, u \in Threads :
        /\ pc[t] = "done:mul_by_a"
        /\ pc[u] = "mul_by_a:42"
        /\ tElem[t] # tElem[u]
        /\ tRet[t] # tCopy[u]
        /\ model.COEFF_A # 0

(***************************************************************************)
(* Cross-model linkage: the impls of TEModelParameters and of              *)
(* MontgomeryModelParameters a program declares, each naming its BaseField *)
(* and the associated type of the other form.  The compiler accepts the    *)
(* program when every associated type satisfies the bound of its trait.    *)
(***************************************************************************)
BaseFields == {"Fq", "Fq2"}

InitLink ==
    /\ model \in SmallModels
    /\ te \in { t \in TEModels : t.COEFF_A = 0 }   \* no call is made here
    /\ NoCall
    /\ IdleThreads
    /\ NoImpls

\* impl TEModelParameters for t { type MontgomeryModelParameters = m; }
Impl_TEModelParameters(t, f, m) ==
    /\ ~teImpl[t].declared
    /\ teImpl' = [teImpl EXCEPT ![t] = [declared |-> TRUE, BaseField |-> f, link |-> m]]
    /\ UNCHANGED <<model, te, mImpl, seqVars, concVars>>

\* impl MontgomeryModelParameters for m { type TEModelParameters = t; }
Impl_MontgomeryModelParameters(m, f, t) ==
    /\ ~mImpl[m].declared
    /\ mImpl' = [mImpl EXCEPT ![m] = [declared |-> TRUE, BaseField |-> f, link |-> t]]
    /\ UNCHANGED <<model, te, teImpl, seqVars, concVars>>

NextLink ==
    \/ \E t \in Types, f \in BaseFields, m \in Types : Impl_TEModelParameters(t, f, m)
    \/ \E m \in Types, f \in BaseFields, t \in Types : Impl_MontgomeryModelParameters(m, f, t)

SpecLink == InitLink /\ [][NextLink]_vars

\* Variant: the bound does not tie the base fields,
\* type MontgomeryModelParameters: MontgomeryModelParameters;
TEBoundHolds_any_field(t) ==
    mImpl[teImpl[t].link].declared

\* type MontgomeryModelParameters: MontgomeryModelParameters<BaseField = Self::BaseField>;
TEBoundHolds(t) ==
    /\ mImpl[teImpl[t].link].declared
    /\ mImpl[teImpl[t].link].BaseField = teImpl[t].BaseField

\* type TEModelParameters: TEModelParameters<BaseField = Self::BaseField>;
MontgomeryBoundHolds(m) ==
    /\ teImpl[mImpl[m].link].declared
    /\ teImpl[mImpl[m].link].BaseField = mImpl[m].BaseField

\* The program type-checks.
Accepted ==
    /\ \A t \in Types : teImpl[t].declared => TEBoundHolds(t)
    /\ \A m \in Types : mImpl[m].declared => MontgomeryBoundHolds(m)

\* C7 as stated: in an accepted program the linkage round-trips, the
\* Montgomery type of TE names TE itself as its Twisted-Edwards type (and
\* symmetrically), and the linked pair has the same BaseField.
C7_LinkRoundTrips ==
    Accepted =>
        /\ \A t \in Types : teImpl[t].declared =>
              /\ mImpl[teImpl[t].link].link = t
              /\ mImpl[teImpl[t].link].BaseField = teImpl[t].BaseField
        /\ \A m \in Types : mImpl[m].declared =>
              /\ teImpl[mImpl[m].link].link = m
              /\ teImpl[mImpl[m].link].BaseField = mImpl[m].BaseField

\* C7 as amended: in an accepted program every Twisted-Edwards instance
\* names one declared Montgomery instance over the same BaseField, whose own
\* Twisted-Edwards type is a declared instance over that BaseField (and
\* symmetrically); it need not be the instance the link started from.
C7_LinkSharesBaseField ==
    Accepted =>
        /\ \A t \in Types : teImpl[t].declared =>
              LET m  == teImpl[t].link
                  t2 == mImpl[m].link
              IN  /\ mImpl[m].declared
                  /\ mImpl[m].BaseField = teImpl[t].BaseField
                  /\ teImpl[t2].declared
                  /\ teImpl[t2].BaseField = teImpl[t].BaseField
        /\ \A m \in Types : mImpl[m].declared =>
              LET t  == mImpl[m].link
                  m2 == teImpl[t].link
              IN  /\ teImpl[t].declared
                  /\ teImpl[t].BaseField = mImpl[m].BaseField
                  /\ mImpl[m2].declared
                  /\ mImpl[m2].BaseField = mImpl[m].BaseField

C7_Witness ==
    /\ Accepted
    /\ \E t \in Types :
          /\ teImpl[t].declared
          /\ mImpl[teImpl[t].link].link # t
          /\ mImpl[teImpl[t].link].BaseField = teImpl[t].BaseField

====
